---- MODULE Spec2Model ----
(***************************************************************************)
(* Chat-Review: the interview client (frontend/src/App.tsx), its stream    *)
(* reader, and the session service it talks to.                            *)
(*                                                                         *)
(* Spec        the App component: its React state and the asynchronous     *)
(*             invocations of startSession / sendChatMessage / streamModel *)
(* SpecReader  the read loop of streamModel at the level of bytes, chunks  *)
(*             and the "\n\n" event delimiter                              *)
(* SpecOrch    the session service (createSession, appendCandidateMessage, *)
(*             requestModelTurn, recordScore)                              *)
(* SpecTurn    one model turn: the service's Streaming Consumer with its   *)
(*             tool-call loop and watchdog, and the client reading it      *)
(***************************************************************************)
EXTENDS Integers, Sequences, FiniteSets, TLC

\* ---------------------------------------------------------------- bounds
\* handler invocations (startSession + sendChatMessage) in one run
MaxCalls == 3
\* events one chat-stream response delivers
MaxEvents == 2

\* ---------------------------------------------------------------- values
\* null for the numeric ids (an id of 0 is as falsy as null in the guards)
Null == 0
\* no status text, no task
NoStatus == ""
NoTask == ""

\* texts are sequences of characters; a fixed phrase of the UI is one symbol
MsgSessionCreated == <<"SessionCreated">>
MsgModelError == <<"ModelError:">>
MsgStreamFailed == <<"StreamFailed:">>
MsgModelUnavailable == <<"ModelUnavailable:">>
StatusSelect == "SelectRoleAndScenario"
StatusActive == "SessionActive"
StatusError == "RequestFailed"

\* what the candidate can have typed into the composer
ChatTexts == { <<>>, <<" ">>, <<"q">> }

\* the line feed character
LF == "LF"

\* String.prototype.trim on a text
IsSpace(c) == c \in {" ", LF}

RECURSIVE TrimLeft(_)
TrimLeft(s) == IF s # <<>> /\ IsSpace(Head(s)) THEN TrimLeft(Tail(s)) ELSE s

RECURSIVE TrimRight(_)
TrimRight(s) ==
  IF s # <<>> /\ IsSpace(s[Len(s)]) THEN TrimRight(SubSeq(s, 1, Len(s) - 1)) ELSE s

Trim(s) == TrimRight(TrimLeft(s))

\* the events of a chat-stream response, as JSON.parse returns them
TokenEvents == { [type |-> "token", content |-> <<c>>] : c \in {"a", "b"} }
ErrorEvents == { [type |-> "error", content |-> <<"e">>] }
DoneEvents == { [type |-> "done", content |-> c] : c \in { <<>>, <<"c">> } }
Events == TokenEvents \cup ErrorEvents \cup DoneEvents

\* roles and scenarios the page offers
Roles == {1, 2}
Scenarios == <<
  [id |-> 101, role_id |-> 1, tasks |-> <<"T1", "C1">>],
  [id |-> 201, role_id |-> 2, tasks |-> <<"T-REST">>] >>

VARIABLES
  \* the App component
  view, selectedRole, selectedScenario, sessionId, messages, streamingReply,
  streaming, chatInput, loading, status, currentTaskIndex,
  procs, nextId, ended,
  \* one read loop of streamModel
  rdEvents, rdBytes, rdPos, rdPending, buffer, rdHandled, rdPc, rdCuts,
  \* the session service
  orchSessions, orchResult,
  \* one model turn of the service
  consumer, toolCalls, emitted, elapsed, delivered

appVars == << view, selectedRole, selectedScenario, sessionId, messages,
              streamingReply, streaming, chatInput, loading, status,
              currentTaskIndex, procs, nextId, ended >>
readerVars == << rdEvents, rdBytes, rdPos, rdPending, buffer, rdHandled, rdPc,
                 rdCuts >>
orchVars == << orchSessions, orchResult >>
turnVars == << consumer, toolCalls, emitted, elapsed, delivered >>
vars == << appVars, readerVars, orchVars, turnVars >>

\* ------------------------------------------------------------- derived
\* scenarios.find((s) => s.id === id): the index of the first hit from k on,
\* or 0
RECURSIVE FindById(_, _)
FindById(id, k) ==
  IF k > Len(Scenarios) THEN 0
  ELSE IF Scenarios[k].id = id THEN k ELSE FindById(id, k + 1)

\* scenarios.find((s) => s.role_id === role)
RECURSIVE FindByRole(_, _)
FindByRole(role, k) ==
  IF k > Len(Scenarios) THEN 0
  ELSE IF Scenarios[k].role_id = role THEN k ELSE FindByRole(role, k + 1)

\* selectedScenarioObj?.tasks || []
orderedTasks ==
  LET k == FindById(selectedScenario, 1)
  IN IF k = 0 THEN <<>> ELSE Scenarios[k].tasks

\* currentTask?.id
currentTask ==
  IF currentTaskIndex + 1 \in DOMAIN orderedTasks
    THEN orderedTasks[currentTaskIndex + 1] ELSE NoTask

\* the stream that terminated last: the session it was requested for, the events
\* it had delivered, and whether it ended by a throw
NoStream == [sid |-> Null, evs |-> <<>>, thrown |-> FALSE]

\* the service has not been called
NoCall == [op |-> "none", sid |-> 0, err |-> "ok", task |-> NoTask, points |-> 0]

\* an invocation of streamModel is between its start and its termination
InFlight(p) == p.pc \in {"fetch", "read"}

\* pushMessage as setMessages([msg]): the earlier messages are dropped
pushMessageReplacing(prev, msg) == <<msg>>

\* setMessages((prev) => [...prev, msg])
pushMessage(prev, msg) == Append(prev, msg)

Message(sender, text, task) == [sender |-> sender, text |-> text, task_id |-> task]

\* ------------------------------------------------------------- Init
AppInit ==
  /\ view = "landing"
  /\ selectedRole = Null
  /\ selectedScenario = Null
  /\ sessionId = Null
  /\ messages = <<>>
  /\ streamingReply = <<>>
  /\ streaming = FALSE
  /\ chatInput = <<>>
  /\ loading = FALSE
  /\ status = NoStatus
  /\ currentTaskIndex = 0
  /\ procs = <<>>
  /\ nextId = 1
  /\ ended = NoStream

\* no read loop is running
ReaderIdle ==
  /\ rdEvents = <<>>
  /\ rdBytes = <<>>
  /\ rdPos = 0
  /\ rdPending = <<>>
  /\ buffer = <<>>
  /\ rdHandled = <<>>
  /\ rdPc = "idle"
  /\ rdCuts = {}

\* the service holds no session
OrchIdle ==
  /\ orchSessions = <<>>
  /\ orchResult = NoCall

\* no model turn is running
TurnIdle ==
  /\ consumer = "idle"
  /\ toolCalls = 0
  /\ emitted = <<>>
  /\ elapsed = 0
  /\ delivered = 0

Init == AppInit /\ ReaderIdle /\ OrchIdle /\ TurnIdle

\* ------------------------------------------------------------- streamModel
\* lines 274-278: the synchronous head of streamModel, for the sessionId the
\* calling closure captured; gives the process's next pc and the new flags
StreamModelStarts(sid) == sid # Null

\* lines 311-319: catch (when thrown) and finally; the messages after them
StreamModelFinally(prev, acc, thrown) ==
  LET afterCatch ==
        IF thrown THEN pushMessage(prev, Message("system", MsgStreamFailed, NoTask))
        ELSE prev
  IN IF acc # <<>> THEN pushMessage(afterCatch, Message("model", acc, NoTask))
     ELSE afterCatch

\* setStreaming(false) after the loop instead of in finally: a throw skips it
StreamingAfterLoopOnly(cur, thrown) == IF thrown THEN cur ELSE FALSE

\* line 314, setStreaming(false) in finally: the flag after the stream ended
StreamingAfter(cur, thrown) == FALSE

\* an invocation that returned: its locals are gone
Finished(p) == [p EXCEPT !.pc = "done", !.acc = <<>>, !.evs = <<>>]

\* the stream of process i ends (normally or by a throw): finally, and then
\* the rest of the caller (startSession's own finally)
EndStream(i, thrown) ==
  LET p == procs[i] IN
  /\ messages' = StreamModelFinally(messages, p.acc, thrown)
  /\ streaming' = StreamingAfter(streaming, thrown)
  /\ streamingReply' = IF p.acc # <<>> THEN <<>> ELSE streamingReply
  /\ loading' = IF p.kind = "start" THEN FALSE ELSE loading
  /\ procs' = [procs EXCEPT ![i] = Finished(p)]
  /\ ended' = [sid |-> p.sid, evs |-> p.evs, thrown |-> thrown]

\* the response of fetch(.../lm/chat-stream) arrives
StreamFetchResp(i, outcome) ==
  /\ i \in DOMAIN procs
  /\ procs[i].pc = "fetch"
  /\ IF outcome = "body"
       THEN /\ procs' = [procs EXCEPT ![i].pc = "read"]
            /\ UNCHANGED << messages, streaming, streamingReply, loading, ended >>
       ELSE EndStream(i, TRUE)
  /\ UNCHANGED << view, selectedRole, selectedScenario, sessionId, chatInput,
                  status, currentTaskIndex, nextId, readerVars, orchVars, turnVars >>

\* what the service may send next on a stream that already delivered evs:
\* done and error are terminal events
ServerMayEmit(evs) ==
  /\ Len(evs) < MaxEvents
  /\ IF evs = <<>> THEN TRUE ELSE evs[Len(evs)].type = "token"

\* `accumulated += data.content` on done as on token
AccumulatedAppendingDone(acc, ev) ==
  CASE ev.type \in {"token", "done"} -> acc \o ev.content
    [] OTHER -> acc

\* lines 296-308: the local `accumulated` after one parsed event
Accumulated(acc, ev) ==
  CASE ev.type = "token" -> acc \o ev.content
    [] ev.type = "done" /\ ev.content # <<>> -> ev.content
    [] OTHER -> acc

\* lines 295-308: the body of the loop over the parts, on one parsed event
HandleEvent(i, ev) ==
  LET p == procs[i]
  IN /\ procs' = [procs EXCEPT ![i].acc = Accumulated(p.acc, ev),
                               ![i].evs = Append(p.evs, ev)]
     /\ streamingReply' =
          CASE ev.type = "token" -> streamingReply \o ev.content
            [] ev.type = "done" /\ ev.content # <<>> -> ev.content
            [] OTHER -> streamingReply
     /\ messages' =
          IF ev.type = "error"
            THEN pushMessage(messages,
                   Message("system", MsgModelError \o ev.content, NoTask))
            ELSE messages

\* the next event of the response is read and handled
StreamReadEvent(i, ev) ==
  /\ i \in DOMAIN procs
  /\ procs[i].pc = "read"
  /\ ServerMayEmit(procs[i].evs)
  /\ HandleEvent(i, ev)
  /\ UNCHANGED << view, selectedRole, selectedScenario, sessionId, streaming,
                  chatInput, loading, status, currentTaskIndex, nextId, ended, readerVars, orchVars, turnVars >>

\* line 295: JSON.parse throws on the payload of an event
StreamReadMalformed(i) ==
  /\ i \in DOMAIN procs
  /\ procs[i].pc = "read"
  /\ ServerMayEmit(procs[i].evs)
  /\ EndStream(i, TRUE)
  /\ UNCHANGED << view, selectedRole, selectedScenario, sessionId, chatInput,
                  status, currentTaskIndex, nextId, readerVars, orchVars, turnVars >>

\* line 286-287: reader.read() reports done (thrown = FALSE) or rejects
StreamReadEnd(i, thrown) ==
  /\ i \in DOMAIN procs
  /\ procs[i].pc = "read"
  /\ EndStream(i, thrown)
  /\ UNCHANGED << view, selectedRole, selectedScenario, sessionId, chatInput,
                  status, currentTaskIndex, nextId, readerVars, orchVars, turnVars >>

\* ------------------------------------------------------------- startSession
NewProc(kind, sid) ==
  [kind |-> kind, pc |-> "post", sid |-> sid, acc |-> <<>>, evs |-> <<>>]

\* the two "start" buttons: shown outside the admin view, disabled by loading
StartSessionEnabled == view # "admin" /\ ~loading

StartSession ==
  /\ StartSessionEnabled
  /\ Len(procs) < MaxCalls
  /\ IF selectedRole = Null \/ selectedScenario = Null
       THEN /\ status' = StatusSelect
            /\ UNCHANGED << loading, procs >>
       ELSE /\ loading' = TRUE
            /\ procs' = Append(procs, NewProc("start", sessionId))
            /\ UNCHANGED status
  /\ UNCHANGED << view, selectedRole, selectedScenario, sessionId, messages,
                  streamingReply, streaming, chatInput, currentTaskIndex, nextId, ended, readerVars, orchVars, turnVars >>

\* POST /sessions answers
StartSessionResp(i, ok) ==
  /\ i \in DOMAIN procs
  /\ procs[i].kind = "start" /\ procs[i].pc = "post"
  /\ IF ok
       THEN /\ sessionId' = nextId
            /\ nextId' = nextId + 1
            /\ messages' = << Message("system", MsgSessionCreated, NoTask) >>
            /\ status' = StatusActive
            /\ view' = "session"
            /\ currentTaskIndex' = 0
            /\ IF StreamModelStarts(procs[i].sid)
                 THEN /\ streaming' = TRUE
                      /\ streamingReply' = <<>>
                      /\ procs' = [procs EXCEPT ![i].pc = "fetch"]
                      /\ UNCHANGED loading
                 ELSE /\ loading' = FALSE
                      /\ procs' = [procs EXCEPT ![i] = Finished(procs[i])]
                      /\ UNCHANGED << streaming, streamingReply >>
       ELSE /\ status' = StatusError
            /\ loading' = FALSE
            /\ procs' = [procs EXCEPT ![i] = Finished(procs[i])]
            /\ UNCHANGED << sessionId, nextId, messages, view, currentTaskIndex,
                            streaming, streamingReply >>
  /\ UNCHANGED << selectedRole, selectedScenario, chatInput, ended, readerVars, orchVars, turnVars >>

\* ------------------------------------------------------------- sendChatMessage
\* the send button with disabled={!sessionId}
SendEnabledWhileStreaming == view = "session" /\ sessionId # Null

\* the send button: in the session view, disabled={!sessionId || streaming}
SendEnabled == view = "session" /\ sessionId # Null /\ ~streaming

SendChatMessage ==
  /\ SendEnabled
  /\ Len(procs) < MaxCalls
  /\ IF Trim(chatInput) = <<>> \/ sessionId = Null
       THEN UNCHANGED << messages, chatInput, procs >>
       ELSE /\ messages' = pushMessage(messages,
                             Message("candidate", chatInput, currentTask))
            /\ chatInput' = <<>>
            /\ procs' = Append(procs, NewProc("send", sessionId))
  /\ UNCHANGED << view, selectedRole, selectedScenario, sessionId, streamingReply,
                  streaming, loading, status, currentTaskIndex, nextId, ended, readerVars, orchVars, turnVars >>

\* POST /sessions/{id}/messages answers
SendChatMessageResp(i, ok) ==
  /\ i \in DOMAIN procs
  /\ procs[i].kind = "send" /\ procs[i].pc = "post"
  /\ IF ok
       THEN /\ IF StreamModelStarts(procs[i].sid)
                 THEN /\ streaming' = TRUE
                      /\ streamingReply' = <<>>
                      /\ procs' = [procs EXCEPT ![i].pc = "fetch"]
                 ELSE /\ procs' = [procs EXCEPT ![i] = Finished(procs[i])]
                      /\ UNCHANGED << streaming, streamingReply >>
            /\ UNCHANGED messages
       ELSE /\ messages' = pushMessage(messages,
                             Message("system", MsgModelUnavailable, NoTask))
            /\ procs' = [procs EXCEPT ![i] = Finished(procs[i])]
            /\ UNCHANGED << streaming, streamingReply >>
  /\ UNCHANGED << view, selectedRole, selectedScenario, sessionId, chatInput,
                  loading, status, currentTaskIndex, nextId, ended, readerVars, orchVars, turnVars >>

\* ------------------------------------------------------------- the page
\* onChange of the composer's textarea
SetChatInput(t) ==
  /\ view = "session"
  /\ chatInput' = t
  /\ UNCHANGED << view, selectedRole, selectedScenario, sessionId, messages,
                  streamingReply, streaming, loading, status, currentTaskIndex,
                  procs, nextId, ended, readerVars, orchVars, turnVars >>

\* the admin toggle of the header
ToggleAdmin ==
  /\ view' = IF view = "admin" THEN "landing" ELSE "admin"
  /\ UNCHANGED << selectedRole, selectedScenario, sessionId, messages,
                  streamingReply, streaming, chatInput, loading, status,
                  currentTaskIndex, procs, nextId, ended, readerVars, orchVars, turnVars >>

\* lines 150-155: the effect that picks the first scenario of the role when
\* a role is selected and no scenario is; the selected scenario after it ran
AutoSelectScenario(role, scenario) ==
  LET k == FindByRole(role, 1)
  IN IF role # Null /\ scenario = Null /\ k # 0 THEN Scenarios[k].id ELSE scenario

\* a role click without setSelectedScenario(null)
SelectRoleKeepingScenario(r) ==
  /\ view = "landing"
  /\ selectedRole' = r
  /\ selectedScenario' = AutoSelectScenario(r, selectedScenario)
  /\ UNCHANGED << view, sessionId, messages, streamingReply, streaming,
                  chatInput, loading, status, currentTaskIndex, procs, nextId,
                  ended, readerVars, orchVars, turnVars >>

\* a role card is clicked; the effect then runs
SelectRole(r) ==
  /\ view = "landing"
  /\ selectedRole' = r
  /\ selectedScenario' = AutoSelectScenario(r, Null)
  /\ UNCHANGED << view, sessionId, messages, streamingReply, streaming,
                  chatInput, loading, status, currentTaskIndex, procs, nextId, ended, readerVars, orchVars, turnVars >>

\* a scenario of the list (filtered by the selected role) is clicked
SelectScenario(k) ==
  /\ view = "landing"
  /\ selectedRole = Null \/ Scenarios[k].role_id = selectedRole
  /\ selectedScenario' = AutoSelectScenario(selectedRole, Scenarios[k].id)
  /\ UNCHANGED << view, selectedRole, sessionId, messages, streamingReply,
                  streaming, chatInput, loading, status, currentTaskIndex, procs,
                  nextId, ended, readerVars, orchVars, turnVars >>

\* goNextTask with the guard currentTaskIndex < orderedTasks.length
goNextTaskPastEnd ==
  /\ view = "session"
  /\ currentTaskIndex < Len(orderedTasks)
  /\ currentTaskIndex' = currentTaskIndex + 1
  /\ UNCHANGED << view, selectedRole, selectedScenario, sessionId, messages,
                  streamingReply, streaming, chatInput, loading, status, procs,
                  nextId, ended, readerVars, orchVars, turnVars >>

\* lines 445-449
goNextTask ==
  /\ view = "session"
  /\ currentTaskIndex < Len(orderedTasks) - 1
  /\ currentTaskIndex' = currentTaskIndex + 1
  /\ UNCHANGED << view, selectedRole, selectedScenario, sessionId, messages,
                  streamingReply, streaming, chatInput, loading, status, procs,
                  nextId, ended, readerVars, orchVars, turnVars >>

goPrevTask ==
  /\ view = "session"
  /\ currentTaskIndex > 0
  /\ currentTaskIndex' = currentTaskIndex - 1
  /\ UNCHANGED << view, selectedRole, selectedScenario, sessionId, messages,
                  streamingReply, streaming, chatInput, loading, status, procs,
                  nextId, ended, readerVars, orchVars, turnVars >>

Next ==
  \/ StartSession
  \/ \E i \in 1..MaxCalls, ok \in BOOLEAN : StartSessionResp(i, ok)
  \/ SendChatMessage
  \/ \E i \in 1..MaxCalls, ok \in BOOLEAN : SendChatMessageResp(i, ok)
  \/ \E i \in 1..MaxCalls, o \in {"body", "nobody", "reject"} : StreamFetchResp(i, o)
  \/ \E i \in 1..MaxCalls, ev \in Events : StreamReadEvent(i, ev)
  \/ \E i \in 1..MaxCalls : StreamReadMalformed(i)
  \/ \E i \in 1..MaxCalls, thrown \in BOOLEAN : StreamReadEnd(i, thrown)
  \/ \E t \in ChatTexts : SetChatInput(t)
  \/ ToggleAdmin
  \/ \E r \in Roles : SelectRole(r)
  \/ \E k \in DOMAIN Scenarios : SelectScenario(k)
  \/ goNextTask
  \/ goPrevTask

Spec == Init /\ [][Next]_vars

\* ================================================================ the reader
\* One response of /lm/chat-stream at the level of bytes: the service writes
\* its events as `data: <json>` + blank line, the transport cuts the bytes into
\* chunks, and the loop of lines 285-310 decodes, splits and parses them.

\* events one response carries in this specification
MaxWireEvents == 2

\* a character outside ASCII: two bytes in UTF-8
WideChar == "U+00E9"
LeadByte == "xC3"
ContByte == "xA9"

\* what the service may put on the wire; "bad" is a payload that is no JSON
WireEvents ==
  { [type |-> "token", content |-> <<"a">>],
    [type |-> "token", content |-> <<WideChar>>],
    [type |-> "done", content |-> <<>>],
    [type |-> "done", content |-> <<"b">>],
    [type |-> "error", content |-> <<"e">>],
    [type |-> "bad", content |-> <<>>] }

\* the JSON text of an event: "{", one character for type and key, the
\* content, "}"
TypeChar(t) == CASE t = "token" -> "T" [] t = "done" -> "D" [] t = "error" -> "E"
                 [] OTHER -> "?"

JsonOf(ev) ==
  IF ev.type = "bad" THEN <<"{">>
  ELSE <<"{", TypeChar(ev.type)>> \o ev.content \o <<"}">>

\* UTF-8 encoding of a text
RECURSIVE Utf8(_)
Utf8(s) ==
  IF s = <<>> THEN <<>>
  ELSE (IF Head(s) = WideChar THEN <<LeadByte, ContByte>> ELSE <<Head(s)>>)
       \o Utf8(Tail(s))

DataPrefix == <<"d", "a", "t", "a", ":">>

\* one event on the wire, and a whole response
WireOf(ev) == Utf8(DataPrefix \o <<" ">> \o JsonOf(ev) \o <<LF, LF>>)

RECURSIVE WireOfAll(_)
WireOfAll(evs) == IF evs = <<>> THEN <<>> ELSE WireOf(Head(evs)) \o WireOfAll(Tail(evs))

\* line 288, decoder.decode(value, { stream: true }): the characters of the
\* bytes, given the bytes the decoder held back; an incomplete character at
\* the end of the chunk is held back for the next call
RECURSIVE Decode(_, _)
Decode(pending, bytes) ==
  IF bytes = <<>> THEN [out |-> <<>>, pending |-> pending]
  ELSE LET b == Head(bytes) IN
    IF pending # <<>>
      THEN IF b = ContByte
             THEN LET r == Decode(<<>>, Tail(bytes))
                  IN [out |-> <<WideChar>> \o r.out, pending |-> r.pending]
             ELSE LET r == Decode(<<>>, bytes)
                  IN [out |-> <<"FFFD">> \o r.out, pending |-> r.pending]
    ELSE IF b = LeadByte THEN Decode(<<b>>, Tail(bytes))
    ELSE IF b = ContByte
      THEN LET r == Decode(<<>>, Tail(bytes))
           IN [out |-> <<"FFFD">> \o r.out, pending |-> r.pending]
    ELSE LET r == Decode(<<>>, Tail(bytes))
         IN [out |-> <<b>> \o r.out, pending |-> r.pending]

\* the index of the first "\n\n" of s at or after k, or 0
RECURSIVE IndexOfDelimiter(_, _)
IndexOfDelimiter(s, k) ==
  IF k + 1 > Len(s) THEN 0
  ELSE IF s[k] = LF /\ s[k + 1] = LF THEN k
  ELSE IndexOfDelimiter(s, k + 1)

\* line 289, buffer.split("\n\n")
RECURSIVE Split(_)
Split(s) ==
  LET k == IndexOfDelimiter(s, 1) IN
  IF k = 0 THEN <<s>>
  ELSE <<SubSeq(s, 1, k - 1)>> \o Split(SubSeq(s, k + 2, Len(s)))

\* buffer = "" after the split: the incomplete tail is dropped
RestOfDropped(parts) == <<>>

\* line 290, buffer = parts.pop() || ""
RestOf(parts) == parts[Len(parts)]

CompleteParts(parts) == SubSeq(parts, 1, Len(parts) - 1)

StartsWithData(s) == Len(s) >= 5 /\ SubSeq(s, 1, 5) = DataPrefix

\* line 295, JSON.parse: the event of a JSON text, or Thrown
Thrown == [type |-> "thrown", content |-> <<>>]

JsonParse(raw) ==
  IF Len(raw) >= 3 /\ raw[1] = "{" /\ raw[Len(raw)] = "}" /\ raw[2] \in {"T", "D", "E"}
    THEN [type |-> CASE raw[2] = "T" -> "token" [] raw[2] = "D" -> "done"
                     [] OTHER -> "error",
          content |-> SubSeq(raw, 3, Len(raw) - 1)]
    ELSE Thrown

\* lines 291-309: the parts in order; the events handled, and whether
\* JSON.parse threw (which leaves the loop)
RECURSIVE HandleParts(_, _)
HandleParts(parts, handled) ==
  IF parts = <<>> THEN [handled |-> handled, thrown |-> FALSE]
  ELSE LET part == Trim(Head(parts)) IN
    IF ~StartsWithData(part) THEN HandleParts(Tail(parts), handled)
    ELSE LET raw == Trim(SubSeq(part, 6, Len(part))) IN
      IF raw = <<>> THEN HandleParts(Tail(parts), handled)
      ELSE LET data == JsonParse(raw) IN
        IF data = Thrown THEN [handled |-> handled, thrown |-> TRUE]
        ELSE HandleParts(Tail(parts), Append(handled, data))

\* lines 286-309: one iteration of the loop on a chunk of bytes, from the
\* loop's locals st = [pending, buffer, handled]
ReadChunk(st, chunk) ==
  LET dec == Decode(st.pending, chunk)
      parts == Split(st.buffer \o dec.out)
      res == HandleParts(CompleteParts(parts), st.handled)
  IN [pending |-> dec.pending, buffer |-> RestOf(parts),
      handled |-> res.handled, thrown |-> res.thrown]

\* sequences of 1..n wire events
RECURSIVE WireSeqs(_)
WireSeqs(n) ==
  IF n = 0 THEN { <<>> }
  ELSE LET shorter == WireSeqs(n - 1)
       IN shorter \cup { Append(q, e) : q \in {x \in shorter : Len(x) = n - 1},
                                        e \in WireEvents }

ReaderInit ==
  /\ rdEvents \in WireSeqs(MaxWireEvents) \ { <<>> }
  /\ rdBytes = WireOfAll(rdEvents)
  /\ rdPos = 0
  /\ rdPending = <<>>
  /\ buffer = <<>>
  /\ rdHandled = <<>>
  /\ rdPc = "read"
  /\ rdCuts = {}

\* where the chunk boundary after byte k of the response falls
CutKind(bytes, k) ==
  CASE k = Len(bytes) -> "end"
    [] bytes[k] = LeadByte -> "character"
    [] bytes[k] = LF /\ bytes[k + 1] = LF -> "delimiter"
    [] bytes[k] = LF -> "between"
    [] OTHER -> "event"

\* reader.read() returns the next n bytes of the response
ReaderRead(n) ==
  /\ rdPc = "read"
  /\ rdPos + n <= Len(rdBytes)
  /\ LET st == ReadChunk([pending |-> rdPending, buffer |-> buffer,
                          handled |-> rdHandled],
                         SubSeq(rdBytes, rdPos + 1, rdPos + n))
     IN /\ rdPending' = st.pending
        /\ buffer' = st.buffer
        /\ rdHandled' = st.handled
        /\ rdPc' = IF st.thrown THEN "thrown" ELSE "read"
  /\ rdPos' = rdPos + n
  /\ rdCuts' = rdCuts \cup { CutKind(rdBytes, rdPos + n) }
  /\ UNCHANGED << rdEvents, rdBytes, appVars, orchVars, turnVars >>

\* reader.read() reports done: the response is complete
ReaderEnd ==
  /\ rdPc = "read"
  /\ rdPos = Len(rdBytes)
  /\ rdPc' = "done"
  /\ UNCHANGED << rdEvents, rdBytes, rdPos, rdPending, buffer, rdHandled,
                  rdCuts, appVars, orchVars, turnVars >>

ReaderNext ==
  \/ \E n \in 1..Len(rdBytes) : ReaderRead(n)
  \/ ReaderEnd

InitReader == AppInit /\ ReaderInit /\ OrchIdle /\ TurnIdle

SpecReader == InitReader /\ [][ReaderNext]_vars

\* ================================================================ the service
\* The session service behind POST /sessions, POST /sessions/{id}/messages,
\* GET /sessions/{id}/lm/chat-stream and POST /sessions/{id}/score: a session's
\* lifecycle, its Message sequence and its Score sequence.

\* sessions do not share state: one session is followed, next to calls that
\* name a session the service does not know
\* messages and scores the session holds
MaxOrchMessages == 2
MaxScores == 1
\* the largest number of points proposed for a task
MaxProposed == 3

\* reference data: roles, scenarios and the tasks of a scenario
OrchRoles == {1}
OrchScenarios == {101}
OrchTasks == { [id |-> "T1", max_points |-> 1], [id |-> "C1", max_points |-> 2] }

NoSession == [state |-> "none", messages |-> <<>>, scores |-> <<>>]

SessionOf(sessions, sid) == IF sid \in DOMAIN sessions THEN sessions[sid] ELSE NoSession

\* each operation gives its error ("ok" when none) and the session after it

\* createSession(role, scenario)
createSession(role, scenario) ==
  IF role \notin OrchRoles \/ scenario \notin OrchScenarios
    THEN [err |-> "NotFound", session |-> NoSession]
    ELSE [err |-> "ok",
          session |-> [state |-> "created", messages |-> <<>>, scores |-> <<>>]]

\* appendCandidateMessage that stores the message before it checks the state
appendCandidateMessageStoring(sess, text, task) ==
  LET stored == [sess EXCEPT !.messages = Append(@, Message("candidate", text, task))]
  IN CASE sess.state = "none" -> [err |-> "NotFound", session |-> sess]
       [] sess.state \in {"awaiting_model", "completed"} ->
            [err |-> "InvalidState", session |-> stored]
       [] OTHER -> [err |-> "ok", session |-> [stored EXCEPT !.state = "active"]]

\* appendCandidateMessage(session, text, taskId?)
appendCandidateMessage(sess, text, task) ==
  CASE sess.state = "none" -> [err |-> "NotFound", session |-> sess]
    [] sess.state \in {"awaiting_model", "completed"} ->
         [err |-> "InvalidState", session |-> sess]
    [] OTHER ->
         [err |-> "ok",
          session |-> [sess EXCEPT
            !.state = "active",
            !.messages = Append(@, Message("candidate", text, task))]]

\* requestModelTurn without the check of awaiting_model
requestModelTurnReentrant(sess) ==
  CASE sess.state = "none" -> [err |-> "NotFound", session |-> sess]
    [] sess.state = "completed" -> [err |-> "InvalidState", session |-> sess]
    [] OTHER -> [err |-> "ok", session |-> [sess EXCEPT !.state = "awaiting_model"]]

\* requestModelTurn(session): the start of the stream
requestModelTurn(sess) ==
  CASE sess.state = "none" -> [err |-> "NotFound", session |-> sess]
    [] sess.state \in {"awaiting_model", "completed"} ->
         [err |-> "InvalidState", session |-> sess]
    [] OTHER -> [err |-> "ok", session |-> [sess EXCEPT !.state = "awaiting_model"]]

\* the stream of a turn terminates: with done (the complete text is appended
\* as the model's message) or with error (nothing is appended)
turnEnds(sess, outcome, text) ==
  IF sess.state # "awaiting_model" THEN [err |-> "InvalidState", session |-> sess]
  ELSE [err |-> "ok",
        session |-> [sess EXCEPT
          !.state = "active",
          !.messages = IF outcome = "done"
                         THEN Append(@, Message("model", text, NoTask)) ELSE @]]

\* a validator that clamps into 0..max_points
validateScoreClamping(task, points) ==
  [err |-> "ok",
   points |-> IF points < 0 THEN 0
              ELSE IF points > task.max_points THEN task.max_points ELSE points]

\* the Score Validator: the accepted points, or InvalidScore
validateScore(task, points) ==
  IF points < 0 \/ points > task.max_points
    THEN [err |-> "InvalidScore", points |-> 0]
    ELSE [err |-> "ok", points |-> points]

\* recordScore(session, taskId, points)
recordScore(sess, task, points) ==
  IF sess.state = "none" THEN [err |-> "NotFound", session |-> sess]
  ELSE LET v == validateScore(task, points) IN
    IF v.err # "ok" THEN [err |-> v.err, session |-> sess]
    ELSE [err |-> "ok",
          session |-> [sess EXCEPT
            !.scores = Append(@, [task_id |-> task.id, awarded |-> v.points,
                                  max |-> task.max_points])]]

\* the interview ends
completeSession(sess) ==
  CASE sess.state = "none" -> [err |-> "NotFound", session |-> sess]
    [] sess.state = "awaiting_model" -> [err |-> "InvalidState", session |-> sess]
    [] OTHER -> [err |-> "ok", session |-> [sess EXCEPT !.state = "completed"]]

OrchInit ==
  /\ orchSessions = <<>>
  /\ orchResult = NoCall

Call(op, sid, err, task, points) ==
  [op |-> op, sid |-> sid, err |-> err, task |-> task, points |-> points]

\* a call on session sid with result r: the session is replaced by r.session
Store(sid, r) ==
  orchSessions' = IF sid \in DOMAIN orchSessions
                    THEN [orchSessions EXCEPT ![sid] = r.session]
                    ELSE orchSessions

OrchCreateSession(role, scenario) ==
  /\ orchSessions = <<>>
  /\ LET r == createSession(role, scenario)
         sid == Len(orchSessions) + 1
     IN /\ orchSessions' = IF r.err = "ok" THEN Append(orchSessions, r.session)
                           ELSE orchSessions
        /\ orchResult' = Call("createSession", IF r.err = "ok" THEN sid ELSE 0,
                              r.err, NoTask, 0)
  /\ UNCHANGED << appVars, readerVars, turnVars >>

OrchAppendCandidateMessage(sid, text) ==
  /\ LET r == appendCandidateMessage(SessionOf(orchSessions, sid), text, NoTask)
     IN /\ Len(r.session.messages) <= MaxOrchMessages
        /\ Store(sid, r)
        /\ orchResult' = Call("appendCandidateMessage", sid, r.err, NoTask, 0)
  /\ UNCHANGED << appVars, readerVars, turnVars >>

OrchRequestModelTurn(sid) ==
  /\ LET r == requestModelTurn(SessionOf(orchSessions, sid))
     IN /\ Store(sid, r)
        /\ orchResult' = Call("requestModelTurn", sid, r.err, NoTask, 0)
  /\ UNCHANGED << appVars, readerVars, turnVars >>

OrchTurnEnds(sid, outcome) ==
  /\ SessionOf(orchSessions, sid).state = "awaiting_model"
  /\ LET r == turnEnds(SessionOf(orchSessions, sid), outcome, <<"c">>)
     IN /\ Len(r.session.messages) <= MaxOrchMessages
        /\ Store(sid, r)
        /\ orchResult' = Call("turnEnds", sid, r.err, NoTask, 0)
  /\ UNCHANGED << appVars, readerVars, turnVars >>

OrchRecordScore(sid, task, points) ==
  /\ LET r == recordScore(SessionOf(orchSessions, sid), task, points)
     IN /\ Len(r.session.scores) <= MaxScores
        /\ Store(sid, r)
        /\ orchResult' = Call("recordScore", sid, r.err, task.id, points)
  /\ UNCHANGED << appVars, readerVars, turnVars >>

OrchCompleteSession(sid) ==
  /\ LET r == completeSession(SessionOf(orchSessions, sid))
     IN /\ Store(sid, r)
        /\ orchResult' = Call("completeSession", sid, r.err, NoTask, 0)
  /\ UNCHANGED << appVars, readerVars, turnVars >>

\* session ids callers name: the session's and an unknown one
OrchIds == {1, 2}

OrchNext ==
  \/ \E role \in OrchRoles \cup {9}, scenario \in OrchScenarios \cup {999} :
       OrchCreateSession(role, scenario)
  \/ \E sid \in OrchIds, text \in { <<"q">> } : OrchAppendCandidateMessage(sid, text)
  \/ \E sid \in OrchIds : OrchRequestModelTurn(sid)
  \/ \E sid \in OrchIds, outcome \in {"done", "error"} : OrchTurnEnds(sid, outcome)
  \/ \E sid \in OrchIds, task \in OrchTasks, points \in -1..MaxProposed :
       OrchRecordScore(sid, task, points)
  \/ \E sid \in OrchIds : OrchCompleteSession(sid)

InitOrch == AppInit /\ ReaderIdle /\ OrchInit /\ TurnIdle

SpecOrch == InitOrch /\ [][OrchNext]_vars

\* ================================================================ a model turn
\* One session from GET /sessions/{id}/lm/chat-stream on: the service's
\* Streaming Consumer drives the model call, dispatches the tool calls the
\* model asks for, and ends the turn with done or error; the client of
\* lines 274-320 reads the events of the response.

\* tokens the model generates in one turn
MaxTurnTokens == 2

\* configuration of the service: the cap on chained tool calls of a turn, and
\* the watchdog timeout on the whole turn, in ticks of the service's clock
MaxToolCalls == 2
WatchdogTimeout == 2

ToolCallEvent == [type |-> "tool_call", content |-> <<>>]
TurnError(detail) == [type |-> "error", content |-> <<detail>>]

\* the events of a turn that are written to the response: tool_call is not
OnWire(ev) == ev.type # "tool_call"
Wire(evs) == SelectSeq(evs, OnWire)

IsToken(ev) == ev.type = "token"
IsToolCall(ev) == ev.type = "tool_call"

\* the plain answer so far: the tokens after the last tool call
RECURSIVE AnswerOf(_)
AnswerOf(evs) ==
  IF evs = <<>> \/ evs[Len(evs)].type = "tool_call" THEN <<>>
  ELSE AnswerOf(SubSeq(evs, 1, Len(evs) - 1))
       \o (IF IsToken(evs[Len(evs)]) THEN evs[Len(evs)].content ELSE <<>>)

\* the session of the turn and its lifecycle state
TurnSession == orchSessions[1]
AwaitingModel == orchSessions # <<>> /\ TurnSession.state = "awaiting_model"

\* a cap that is never reached
ToolCallAlwaysAllowed(n) == TRUE

\* another tool call may be dispatched after n of them in this turn
ToolCallAllowed(n) == n < MaxToolCalls

\* a watchdog that is never armed
WatchdogNever(t) == FALSE

\* the watchdog of the turn has expired after t ticks
WatchdogExpired(t) == t >= WatchdogTimeout

\* the turn terminates with ev: the lifecycle goes back to active, and a done
\* event's text is the model's message
TurnTerminates(ev) ==
  /\ emitted' = Append(emitted, ev)
  /\ consumer' = "idle"
  /\ orchSessions' = [orchSessions EXCEPT
       ![1] = turnEnds(@, ev.type, ev.content).session]

\* the client of session 1 right after its startSession succeeded
SessionShown ==
  /\ view = "session"
  /\ selectedRole = 1
  /\ selectedScenario = 101
  /\ sessionId = 1
  /\ messages = << Message("system", MsgSessionCreated, NoTask) >>
  /\ streamingReply = <<>>
  /\ streaming = FALSE
  /\ chatInput = <<>>
  /\ loading = FALSE
  /\ status = StatusActive
  /\ currentTaskIndex = 0
  /\ procs = << Finished(NewProc("start", Null)) >>
  /\ nextId = 2
  /\ ended = NoStream

\* the service holds the session, just created
SessionCreated ==
  /\ orchSessions = << createSession(1, 101).session >>
  /\ orchResult = Call("createSession", 1, "ok", NoTask, 0)

\* lines 274-280: streamModel starts and sends the request
TurnClientRequests ==
  /\ StreamModelStarts(sessionId)
  /\ \A i \in DOMAIN procs : ~InFlight(procs[i])
  /\ Len(procs) < MaxCalls
  /\ streaming' = TRUE
  /\ streamingReply' = <<>>
  /\ procs' = Append(procs, [NewProc("send", sessionId) EXCEPT !.pc = "fetch"])
  /\ UNCHANGED << view, selectedRole, selectedScenario, sessionId, messages,
                  chatInput, loading, status, currentTaskIndex, nextId, ended,
                  readerVars, orchVars, turnVars >>

\* requestModelTurn: the service starts the turn and the response
TurnServiceAccepts(i) ==
  /\ i \in DOMAIN procs
  /\ procs[i].pc = "fetch"
  /\ LET r == requestModelTurn(TurnSession)
     IN /\ r.err = "ok"
        /\ orchSessions' = [orchSessions EXCEPT ![1] = r.session]
        /\ orchResult' = Call("requestModelTurn", 1, r.err, NoTask, 0)
  /\ consumer' = "generating"
  /\ toolCalls' = 0
  /\ emitted' = <<>>
  /\ elapsed' = 0
  /\ delivered' = 0
  /\ procs' = [procs EXCEPT ![i].pc = "read"]
  /\ UNCHANGED << view, selectedRole, selectedScenario, sessionId, messages,
                  streamingReply, streaming, chatInput, loading, status,
                  currentTaskIndex, nextId, ended, readerVars >>

\* the model call delivers a token
TurnModelToken(c) ==
  /\ AwaitingModel /\ consumer = "generating"
  /\ Len(SelectSeq(emitted, IsToken)) < MaxTurnTokens
  /\ emitted' = Append(emitted, [type |-> "token", content |-> <<c>>])
  /\ UNCHANGED << appVars, readerVars, orchVars, consumer, toolCalls, elapsed,
                  delivered >>

\* the completion ends in a plain answer: done carries its whole text
TurnModelAnswers ==
  /\ AwaitingModel /\ consumer = "generating"
  /\ TurnTerminates([type |-> "done", content |-> AnswerOf(emitted)])
  /\ UNCHANGED << appVars, readerVars, orchResult, toolCalls, elapsed, delivered >>

\* the completion holds a tool call: it is dispatched, or the cap is exceeded
TurnModelRequestsTool ==
  /\ AwaitingModel /\ consumer = "generating"
  /\ IF ToolCallAllowed(toolCalls)
       THEN /\ emitted' = Append(emitted, ToolCallEvent)
            /\ toolCalls' = toolCalls + 1
            /\ consumer' = "dispatching"
            /\ UNCHANGED orchSessions
       ELSE /\ TurnTerminates(TurnError("ToolCallLimit"))
            /\ UNCHANGED toolCalls
  /\ UNCHANGED << appVars, readerVars, orchResult, elapsed, delivered >>

\* the Tool Dispatcher answers (a result, or the synthetic result of an
\* unsupported tool or an expired dispatch): a new completion is requested
TurnToolResult ==
  /\ AwaitingModel /\ consumer = "dispatching"
  /\ consumer' = "generating"
  /\ UNCHANGED << appVars, readerVars, orchVars, toolCalls, emitted, elapsed,
                  delivered >>

\* the model call fails: UpstreamUnavailable
TurnModelFails ==
  /\ AwaitingModel /\ consumer = "generating"
  /\ TurnTerminates(TurnError("UpstreamUnavailable"))
  /\ UNCHANGED << appVars, readerVars, orchResult, toolCalls, elapsed, delivered >>

\* the clock of the watchdog advances while the turn is in flight
TurnTick ==
  /\ AwaitingModel
  /\ elapsed < WatchdogTimeout
  /\ elapsed' = elapsed + 1
  /\ UNCHANGED << appVars, readerVars, orchVars, consumer, toolCalls, emitted,
                  delivered >>

\* the watchdog ends the turn, wherever the consumer waits
TurnWatchdog ==
  /\ AwaitingModel
  /\ WatchdogExpired(elapsed)
  /\ TurnTerminates(TurnError("Timeout"))
  /\ UNCHANGED << appVars, readerVars, orchResult, toolCalls, elapsed, delivered >>

\* lines 286-308: the client reads the next event of the response
TurnClientReads(i) ==
  /\ i \in DOMAIN procs
  /\ procs[i].pc = "read"
  /\ delivered < Len(Wire(emitted))
  /\ HandleEvent(i, Wire(emitted)[delivered + 1])
  /\ delivered' = delivered + 1
  /\ UNCHANGED << view, selectedRole, selectedScenario, sessionId, streaming,
                  chatInput, loading, status, currentTaskIndex, nextId, ended,
                  readerVars, orchVars, consumer, toolCalls, emitted, elapsed >>

\* lines 286-287, 313-319: the response is complete, reader.read() reports done
TurnClientReadEnd(i) ==
  /\ i \in DOMAIN procs
  /\ procs[i].pc = "read"
  /\ ~AwaitingModel
  /\ delivered = Len(Wire(emitted))
  /\ EndStream(i, FALSE)
  /\ UNCHANGED << view, selectedRole, selectedScenario, sessionId, chatInput,
                  status, currentTaskIndex, nextId, readerVars, orchVars,
                  turnVars >>

TurnNext ==
  \/ TurnClientRequests
  \/ \E i \in 1..MaxCalls : TurnServiceAccepts(i)
  \/ \E c \in {"a"} : TurnModelToken(c)
  \/ TurnModelAnswers
  \/ TurnModelRequestsTool
  \/ TurnToolResult
  \/ TurnModelFails
  \/ TurnTick
  \/ TurnWatchdog
  \/ \E i \in 1..MaxCalls : TurnClientReads(i)
  \/ \E i \in 1..MaxCalls : TurnClientReadEnd(i)

InitTurn == SessionShown /\ ReaderIdle /\ SessionCreated /\ TurnIdle

\* the service's timers run and fire, and the transport delivers what was
\* sent; the model call and the tool handlers may never answer
TurnFairness ==
  /\ WF_vars(TurnTick)
  /\ WF_vars(TurnWatchdog)
  /\ WF_vars(\E i \in 1..MaxCalls : TurnServiceAccepts(i))
  /\ WF_vars(\E i \in 1..MaxCalls : TurnClientReads(i))
  /\ WF_vars(\E i \in 1..MaxCalls : TurnClientReadEnd(i))

SpecTurn == InitTurn /\ [][TurnNext]_vars /\ TurnFairness

\* ================================================================ properties

IsPrefix(s, t) == Len(s) <= Len(t) /\ SubSeq(t, 1, Len(s)) = s

\* the elements of t after its first Len(s)
Added(s, t) == SubSeq(t, Len(s) + 1, Len(t))

IsModel(m) == m.sender = "model"

\* the concatenation of the token contents of evs, in order
RECURSIVE TokensText(_)
TokensText(evs) ==
  IF evs = <<>> THEN <<>>
  ELSE (IF Head(evs).type = "token" THEN Head(evs).content ELSE <<>>)
       \o TokensText(Tail(evs))

\* the text a turn with events evs is to keep: the content of its done event
\* when it has one, the concatenated tokens otherwise
KeptText(evs) ==
  IF evs # <<>> /\ evs[Len(evs)].type = "done" /\ evs[Len(evs)].content # <<>>
    THEN evs[Len(evs)].content
    ELSE TokensText(evs)

HasError(evs) == \E k \in DOMAIN evs : evs[k].type = "error"

\* this step ends the stream of process i
StreamEnds(i) == InFlight(procs[i]) /\ ~InFlight(procs'[i])

\* this step is sendChatMessage passing its guard and posting a message
SendStarted ==
  /\ Len(procs') = Len(procs) + 1
  /\ procs'[Len(procs')].kind = "send"

\* C1: no two streamModel invocations for the same session id are in flight
\* at the same time
OneStreamPerSession ==
  \A i, j \in DOMAIN procs :
    (i # j /\ InFlight(procs[i]) /\ InFlight(procs[j])) => procs[i].sid # procs[j].sid

\* C2: once no stream is being read any more, however the streams ended, the
\* streaming flag is down and the send control of a session is enabled
TurnNeverStuck ==
  (\A i \in DOMAIN procs : ~InFlight(procs[i])) =>
    /\ streaming = FALSE
    /\ (view = "session" /\ sessionId # Null) => SendEnabled

\* a stream that had delivered events ended by a throw, nothing is in flight,
\* and the send control is enabled again
TurnNeverStuckWitness ==
  /\ ended.sid # Null /\ ended.thrown /\ ended.evs # <<>>
  /\ \A i \in DOMAIN procs : ~InFlight(procs[i])
  /\ ~streaming /\ SendEnabled

\* C4: the stream that ends appends exactly one model message, whose text is
\* the content of done when done carried one and the concatenated tokens
\* otherwise, and no model message when there is no such text; the earlier
\* messages stay
DoneCarriesKeptText ==
  [][\A i \in DOMAIN procs :
       StreamEnds(i) =>
         LET kept == KeptText(procs[i].evs)
             models == SelectSeq(Added(messages, messages'), IsModel)
         IN /\ IsPrefix(messages, messages')
            /\ models = IF kept = <<>> THEN <<>>
                        ELSE << Message("model", kept, NoTask) >>]_vars

\* a stream of a token and a done event with another text ended, and the
\* last message is the model's with the text of done
DoneCarriesKeptTextWitness ==
  /\ Len(ended.evs) = 2
  /\ ended.evs[1].type = "token" /\ ended.evs[2].type = "done"
  /\ ended.evs[2].content # <<>> /\ ended.evs[2].content # ended.evs[1].content
  /\ messages # <<>>
  /\ messages[Len(messages)] = Message("model", ended.evs[2].content, NoTask)

\* C5: but for a successful startSession (the only step that takes a new
\* session id), every step leaves the messages so far in place: same length
\* or longer, same sender, text and position
MessagesAppendOnly == [][nextId' = nextId => IsPrefix(messages, messages')]_vars

\* the list of one session holds the candidate's and the model's messages
\* after the system's first one
MessagesAppendOnlyWitness ==
  /\ Len(messages) >= 4
  /\ \E k \in DOMAIN messages : messages[k].sender = "candidate"
  /\ \E k \in DOMAIN messages : messages[k].sender = "model"
  /\ \E k \in DOMAIN messages : messages[k].text = MsgStreamFailed

\* C6: a stream that ends in a failure (an error event, or a throw of fetch,
\* read or JSON.parse) adds no model message made of the tokens received
NoPartialReplyOnFailure ==
  [][\A i \in DOMAIN procs :
       (StreamEnds(i) /\ (ended'.thrown \/ HasError(procs[i].evs))) =>
         SelectSeq(Added(messages, messages'), IsModel) = <<>>]_vars

\* appendCandidateMessage on a session awaiting the model or completed fails
\* with InvalidState
ServiceRejectsCandidate ==
  \A st \in {"awaiting_model", "completed"}, text \in ChatTexts :
    appendCandidateMessage([state |-> st, messages |-> <<>>, scores |-> <<>>],
                           text, NoTask).err = "InvalidState"

\* C7: the service rejects a candidate message for a session awaiting the
\* model or completed; in the client the send control is disabled whenever
\* streaming is set, and sendChatMessage never starts while it is set
NoSendWhileStreaming ==
  /\ []ServiceRejectsCandidate
  /\ [](streaming => ~SendEnabled)
  /\ [][SendStarted => ~streaming]_vars

\* the stream of a sent message is in flight in the session view: the flag
\* is set and the send control is disabled
NoSendWhileStreamingWitness ==
  /\ view = "session" /\ sessionId # Null /\ streaming
  /\ \E i \in DOMAIN procs : procs[i].kind = "send" /\ InFlight(procs[i])
  /\ ~SendEnabled

\* this step is the successful answer of POST /sessions to startSession i
StartSucceeds(i) ==
  /\ procs[i].kind = "start" /\ procs[i].pc = "post"
  /\ procs'[i].pc # "post"
  /\ nextId' = nextId + 1

\* C13: the startSession that created a session goes on to request the
\* chat-stream of that session
IntroductionRequested ==
  [][\A i \in DOMAIN procs :
       StartSucceeds(i) =>
         /\ sessionId' = nextId
         /\ InFlight(procs'[i])
         /\ procs'[i].sid = sessionId']_vars

\* a reply of the model: its message, or the system message of its error
IsReply(m) ==
  \/ m.sender = "model"
  \/ m.sender = "system" /\ IsPrefix(MsgModelError, m.text)

\* this step is taken by a stream requested for the current session
StreamOfCurrentSessionSteps ==
  \E i \in DOMAIN procs :
    /\ InFlight(procs[i]) /\ procs'[i] # procs[i]
    /\ procs[i].sid = sessionId

\* C14: a reply is appended to the messages only by a stream that was
\* requested for the current session (a new session's list starts without
\* replies), so every reply in the list belongs to the current session
SessionsDoNotLeak ==
  /\ [][nextId' # nextId => SelectSeq(messages', IsReply) = <<>>]_vars
  /\ [][(nextId' = nextId /\ SelectSeq(Added(messages, messages'), IsReply) # <<>>)
          => StreamOfCurrentSessionSteps]_vars

\* C15: in the session view the task index is not negative and, when the
\* selected scenario has tasks, it is the index of one of them, so that
\* currentTask is a task of the scenario
TaskIndexInRange ==
  view = "session" =>
    /\ currentTaskIndex >= 0
    /\ orderedTasks # <<>> =>
         /\ currentTaskIndex <= Len(orderedTasks) - 1
         /\ currentTask # NoTask
         /\ \E k \in DOMAIN orderedTasks : orderedTasks[k] = currentTask

\* the session view shows the last task of a scenario of two tasks, in a
\* second session
TaskIndexInRangeWitness ==
  /\ view = "session" /\ sessionId = 2
  /\ Len(orderedTasks) = 2
  /\ currentTaskIndex = Len(orderedTasks) - 1

\* the scenario with the given id
ScenarioOf(id) == Scenarios[FindById(id, 1)]

\* this step is startSession sending POST /sessions
StartPosts ==
  /\ Len(procs') = Len(procs) + 1
  /\ procs'[Len(procs')].kind = "start"

\* C16: a selected scenario is one of the selected role; startSession posts
\* only with both selected, and with either one missing it changes nothing
\* but the status text
ScenarioOfSelectedRole ==
  /\ []((selectedRole # Null /\ selectedScenario # Null) =>
          /\ FindById(selectedScenario, 1) # 0
          /\ ScenarioOf(selectedScenario).role_id = selectedRole)
  /\ [][StartPosts =>
          /\ selectedRole # Null /\ selectedScenario # Null
          /\ ScenarioOf(selectedScenario).role_id = selectedRole]_vars
  /\ [][(StartSession /\ (selectedRole = Null \/ selectedScenario = Null)) =>
          /\ procs' = procs
          /\ status' = StatusSelect
          /\ UNCHANGED << view, selectedRole, selectedScenario, sessionId,
                          messages, streamingReply, streaming, chatInput,
                          loading, currentTaskIndex, nextId >>]_vars

\* a session was requested for role 2 after role 1 and its scenario had been
\* selected, and a start without a role had only set the status
ScenarioOfSelectedRoleWitness ==
  /\ selectedRole = 2 /\ selectedScenario = 201
  /\ \E i \in DOMAIN procs : procs[i].kind = "start" /\ procs[i].pc = "post"
  /\ status = StatusSelect

\* ---------------------------------------------------------------- the reader
\* the loop run once on all the given bytes
Uncut(bytes) ==
  ReadChunk([pending |-> <<>>, buffer |-> <<>>, handled |-> <<>>], bytes)

WellFormed(evs) == \A k \in DOMAIN evs : evs[k].type # "bad"

\* C3: however the bytes read so far were cut into chunks, the events handled
\* are those a single read of the same bytes handles; when a response of
\* well-formed events is complete they are its events, in order, once each
ChunkBoundariesTolerated ==
  rdPc # "idle" =>
    /\ rdHandled = Uncut(SubSeq(rdBytes, 1, rdPos)).handled
    /\ (rdPc = "done" /\ WellFormed(rdEvents)) => rdHandled = rdEvents

\* a response of two events was read to its end in chunks cut inside an
\* event, inside a blank-line delimiter and inside a character
ChunkBoundariesToleratedWitness ==
  /\ rdPc = "done"
  /\ Len(rdEvents) = 2 /\ WellFormed(rdEvents)
  /\ {"event", "delimiter", "character"} \subseteq rdCuts
  /\ rdHandled = rdEvents

\* ---------------------------------------------------------------- the service
\* this step is a call of op on the session the service holds
OrchCalled(op) ==
  /\ orchResult'.op = op
  /\ orchResult'.sid \in DOMAIN orchSessions

\* C8: requestModelTurn on a session awaiting the model fails with
\* InvalidState and leaves the session as it is (the turn in flight goes on);
\* on a created or active session it starts the turn
SecondTurnRejected ==
  [][OrchCalled("requestModelTurn") =>
       LET sid == orchResult'.sid
           before == orchSessions[sid]
       IN IF before.state = "awaiting_model"
            THEN orchResult'.err = "InvalidState" /\ orchSessions' = orchSessions
            ELSE before.state \in {"created", "active"} =>
                   /\ orchResult'.err = "ok"
                   /\ orchSessions'[sid].state = "awaiting_model"]_vars

\* the second of two overlapping requests was rejected and the first turn is
\* still in flight
SecondTurnRejectedWitness ==
  /\ orchResult.op = "requestModelTurn" /\ orchResult.err = "InvalidState"
  /\ orchResult.sid \in DOMAIN orchSessions
  /\ orchSessions[orchResult.sid].state = "awaiting_model"

TaskOf(id) == CHOOSE t \in OrchTasks : t.id = id

\* C9: recordScore fails with InvalidScore exactly when points < 0 or
\* points > max_points and then records nothing; otherwise it appends a Score
\* with awarded = points; every Score has 0 <= awarded <= max
ScoreRejectedNotClamped ==
  /\ [](\A sid \in DOMAIN orchSessions :
          \A k \in DOMAIN orchSessions[sid].scores :
            LET sc == orchSessions[sid].scores[k]
            IN 0 <= sc.awarded /\ sc.awarded <= sc.max)
  /\ [][OrchCalled("recordScore") =>
          LET sid == orchResult'.sid
              task == TaskOf(orchResult'.task)
              points == orchResult'.points
              outside == points < 0 \/ points > task.max_points
              before == orchSessions[sid].scores
              after == orchSessions'[sid].scores
          IN /\ (orchResult'.err = "InvalidScore") <=> outside
             /\ outside => after = before
             /\ ~outside =>
                  after = Append(before, [task_id |-> task.id, awarded |-> points,
                                          max |-> task.max_points])]_vars

\* max_points was accepted and recorded, and then max_points + 1 rejected
ScoreRejectedNotClampedWitness ==
  /\ orchResult.op = "recordScore" /\ orchResult.err = "InvalidScore"
  /\ orchResult.sid \in DOMAIN orchSessions
  /\ orchResult.points = TaskOf(orchResult.task).max_points + 1
  /\ \E k \in DOMAIN orchSessions[orchResult.sid].scores :
       LET sc == orchSessions[orchResult.sid].scores[k]
       IN sc.task_id = orchResult.task /\ sc.awarded = sc.max

CallerErrors == {"NotFound", "InvalidState", "InvalidScore"}

\* C10: a call that fails with NotFound, InvalidState or InvalidScore leaves
\* the lifecycle state, the messages and the scores of every session as they
\* were
CallerErrorsMutateNothing ==
  [][orchResult'.err \in CallerErrors => orchSessions' = orchSessions]_vars

\* a call on a session that holds messages and a score has just failed
CallerErrorsMutateNothingWitness ==
  /\ orchResult.err = "InvalidState" /\ orchResult.op = "appendCandidateMessage"
  /\ orchResult.sid \in DOMAIN orchSessions
  /\ orchSessions[orchResult.sid].messages # <<>>
  /\ orchSessions[orchResult.sid].scores # <<>>

\* ---------------------------------------------------------------- a model turn
\* the last event the turn emitted
LastEmitted == emitted[Len(emitted)]

====
